---- MODULE Spec2Model ----
(***************************************************************************)
(* Model of src/video_to_spacetime.py: the SpaceTimeVisualizer session.    *)
(*                                                                         *)
(* Numbers.  A Python float is a record [nan, h]: h is the value in        *)
(* hundredths (29.97 is h = 2997), nan marks float("nan"), whose every     *)
(* comparison is false.  A quotient such as 1000 / fps is kept exactly as  *)
(* a fraction [nan, n, d] in lowest terms.  A volume entry is the fraction [n, d].         *)
(* Arrays are functions on 0-based index tuples; the decoded frames are a  *)
(* 1-based sequence of images, as a Python list handed to np.stack.        *)
(***************************************************************************)
EXTENDS Integers, Sequences, FiniteSets, TLC

\* ---------------------------------------------------------------- bounds
MaxDim == 2
MaxNest == 1

\* ------------------------------------------------------ program constants
DefaultFps == 20
MinFps == 1
MaxFps == 1000
Channels == 3
MsPerSecond == 1000
PixelScale == 255
Uint8Range == 256

Views == <<"X-Y-T", "Y-T-X", "T-X-Y">>
ViewSet == {Views[i] : i \in 1..Len(Views)}

\* ------------------------------------------------------------ float model
Num(h) == [nan |-> FALSE, h |-> h]
NaN == [nan |-> TRUE, h |-> 0]
Whole(k) == Num(k * 100)
FLe(a, b) == ~a.nan /\ ~b.nan /\ a.h <= b.h
FGt(a, b) == ~a.nan /\ ~b.nan /\ a.h > b.h

\* 1000 / fps (lines 31 and 249); fps is never 0 where the code divides
RECURSIVE GCD(_, _)
GCD(a, b) == IF b = 0 THEN a ELSE GCD(b, a % b)

FDiv(k, f) ==
    IF f.nan THEN [nan |-> TRUE, n |-> 0, d |-> 1]
    ELSE LET g == GCD(k * 100, f.h)
         IN  [nan |-> FALSE, n |-> (k * 100) \div g, d |-> f.h \div g]

\* int(x) of a float: truncation; int(nan) raises ValueError
IntOk(f) == ~f.nan
IntOf(f) == IF f.h >= 0 THEN f.h \div 100 ELSE -((-f.h) \div 100)

\* int(q) of a quotient (line 318)
QIntOf(q) == q.n \div q.d

\* ------------------------------------------------------------- text model
\* the decimal texts the session meets, with the value float(text) gives
Literals ==
    << <<"0", Num(0)>>, <<"1", Num(100)>>, <<"20", Num(2000)>>,
       <<"29", Num(2900)>>, <<"30", Num(3000)>>, <<"1000", Num(100000)>>,
       <<"-5", Num(-500)>>, <<"2000", Num(200000)>>,
       <<"29.97", Num(2997)>>, <<"0.5", Num(50)>>, <<"nan", NaN>> >>
LiteralTexts == {Literals[i][1] : i \in 1..Len(Literals)}

\* float(text): ok = FALSE is the ValueError
ParseFloat(text) ==
    IF text \in LiteralTexts
    THEN [ok |-> TRUE,
          val |-> Literals[CHOOSE i \in 1..Len(Literals) : Literals[i][1] = text][2]]
    ELSE [ok |-> FALSE, val |-> NaN]

\* str(k) for an int k
IntStr(k) ==
    Literals[CHOOSE i \in 1..Len(Literals) :
                 /\ Literals[i][2] = Whole(k)
                 /\ Literals[i][1] \notin {"29.97", "0.5", "nan"}][1]

\* label.lower()
Lower(label) ==
    CASE label = "X-Y-T" -> "x-y-t"
      [] label = "Y-T-X" -> "y-t-x"
      [] label = "T-X-Y" -> "t-x-y"

\* ------------------------------------------------------------- the inputs
\* what the user may type into the FPS box
RateTexts == {"0", "-5", "abc", "2000", "29.97", "0.5", "nan"}

\* the media files: path, os.path.splitext extension, base name
Media ==
    << [path |-> "imports/clip.gif", ext |-> ".gif", base |-> "clip"],
       [path |-> "imports/movie.mp4", ext |-> ".mp4", base |-> "movie"] >>
MediaSet == {Media[i] : i \in 1..Len(Media)}
MediaOf(path) == CHOOSE m \in MediaSet : m.path = path

\* what cap.get(cv2.CAP_PROP_FPS) may report for a video container
DetectedFps == {Num(0), Num(2997), Num(9000000)}

Patterns == {"ramp", "flat", "axes"}

\* a decoded pixel of the test media: pattern p, frame t, row y, column x
Pixel(p, t, y, x, c, H, W) ==
    CASE p = "ramp" -> ((t * H + y) * W + x) * 7 + c * 3 + 1
      [] p = "flat" -> IF c = 0 THEN 0 ELSE IF c = 1 THEN 200 ELSE 30 * (t + y + x)
      [] p = "axes" -> IF c = 0 THEN 100 * x ELSE IF c = 1 THEN 60 * y + 15 ELSE 255 - 80 * t

Image(p, t, H, W) ==
    [q \in (0..H-1) \X (0..W-1) \X (0..Channels-1) |-> Pixel(p, t, q[1], q[2], q[3], H, W)]

Decoded(p, T, H, W) == [i \in 1..T |-> Image(p, i - 1, H, W)]

VARIABLES
    pc,             \* "start", "constructed" (after __init__), "running" (inside run)
    file_path,
    frames,         \* what _load_media returned
    detected,       \* what the container reports as its frame rate
    volume, time, height, width,
    fps, interval,
    current_view, frame,
    anim,           \* self.anim: <<>> is None, <<a>> an animation object
    orphans,        \* animations no longer referenced whose timer still runs
    fps_textbox,    \* the text of the FPS box
    button,         \* the label of the export button
    slice_data,     \* the image update() last handed to imshow: <<>> before the first
    written,        \* what the export handler now in plt.pause wrote: <<>> or <<file>>
    paused,         \* the number of export handlers waiting in plt.pause
    uncaught        \* <<>>, or <<handler, exception>> escaped from the last handler

vars == <<pc, file_path, frames, detected, volume, time, height, width, fps, interval,
          current_view, frame, anim, orphans, fps_textbox, button, slice_data,
          written, paused, uncaught>>

media == <<file_path, frames, detected>>
shape == <<volume, time, height, width>>

\* ----------------------------------------------------------- construction
\* np.stack(frames, axis=0)
Stack(fr) ==
    LET T == Len(fr)
        dom == DOMAIN fr[1]
    IN  [p \in {<<t>> \o q : t \in 0..T-1, q \in dom} |->
            fr[p[1] + 1][<<p[2], p[3], p[4]>>]]

SetMin(S) == CHOOSE m \in S : \A s \in S : m <= s
SetMax(S) == CHOOSE m \in S : \A s \in S : m >= s
ChannelValues(raw, c) == {raw[p] : p \in {q \in DOMAIN raw : q[4] = c}}

\* lines 34-41
Normalize(raw) ==
    [p \in DOMAIN raw |->
        LET channel_min == SetMin(ChannelValues(raw, p[4]))
            channel_max == SetMax(ChannelValues(raw, p[4]))
        IN  IF channel_max > channel_min
            THEN [n |-> raw[p] - channel_min, d |-> channel_max - channel_min]
            ELSE [n |-> raw[p], d |-> 1]]

\* lines 18-28
InitialFps(ext, reported) ==
    IF ext \notin {".gif", ".png", ".jpg", ".jpeg"}
    THEN IF FLe(reported, Num(0)) \/ FGt(reported, Whole(MaxFps))
         THEN Whole(DefaultFps) ELSE reported
    ELSE Whole(DefaultFps)

\* the state at the call of SpaceTimeVisualizer(file_path), for the media files
\* `files` holding one of the `patterns` in one of the `shapes` <<T, H, W>>
Start(patterns, files, shapes) ==
    /\ pc = "start"
    /\ \E m \in files : file_path = m.path
    /\ \E p \in patterns, sh \in shapes : frames = Decoded(p, sh[1], sh[2], sh[3])
    /\ detected \in IF MediaOf(file_path).ext = ".gif" THEN {Num(0)} ELSE DetectedFps
    /\ volume = <<>> /\ time = 0 /\ height = 0 /\ width = 0
    /\ fps = Whole(DefaultFps) /\ interval = FDiv(MsPerSecond, Whole(DefaultFps))
    /\ current_view = "X-Y-T" /\ frame = 0
    /\ anim = <<>> /\ orphans = <<>>
    /\ fps_textbox = "" /\ button = "" /\ slice_data = <<>>
    /\ written = <<>> /\ paused = 0 /\ uncaught = <<>>

Shapes == (1..MaxDim) \X (1..MaxDim) \X (1..MaxDim)
\* the shapes with at most one axis of full length
ThinShapes == {sh \in Shapes : sh[1] + sh[2] + sh[3] <= MaxDim + 2}

\* every medium, every pattern, every shape
InitMedia == Start(Patterns, MediaSet, Shapes)

\* one GIF in the thin shapes
Init == Start({"ramp"}, {Media[1]}, ThinShapes)

\* SpaceTimeVisualizer.__init__
Construct ==
    /\ pc = "start"
    /\ pc' = "constructed"
    /\ fps' = InitialFps(MediaOf(file_path).ext, detected)
    /\ interval' = FDiv(MsPerSecond, fps')
    /\ volume' = Normalize(Stack(frames))
    /\ time' = Len(frames)
    /\ height' = Cardinality({q[1] : q \in DOMAIN frames[1]})
    /\ width' = Cardinality({q[2] : q \in DOMAIN frames[1]})
    /\ fps_textbox' = IntStr(IntOf(fps'))
    /\ button' = "Export GIF"
    /\ current_view' = "X-Y-T" /\ frame' = 0 /\ anim' = <<>>
    /\ UNCHANGED <<media, orphans, slice_data, written, paused, uncaught>>

\* ------------------------------------------------------------- animation
\* DepthRange with the two spatial axes exchanged
DepthRangeSwapped(view) ==
    IF view = "X-Y-T" THEN time
    ELSE IF view = "Y-T-X" THEN height
    ELSE width

\* number of depth indices of a view (lines 268-273)
DepthRange(view) ==
    IF view = "X-Y-T" THEN time
    ELSE IF view = "Y-T-X" THEN width
    ELSE height

\* The session fields the widget handlers change, as one record, so that a
\* handler which re-enters itself is a function of it.
Session ==
    [fps |-> fps, interval |-> interval, anim |-> anim, orphans |-> orphans,
     text |-> fps_textbox, exc |-> ""]

\* self.anim.event_source.stop()
Stopped(a) == IF a = <<>> THEN a ELSE <<[a[1] EXCEPT !.running = FALSE]>>

\* an animation that loses its last reference keeps firing if its timer runs
Released(s) ==
    IF s.anim # <<>> /\ s.anim[1].running THEN Append(s.orphans, s.anim[1]) ELSE s.orphans

\* start_animation (lines 266-281).  FuncAnimation hands the interval to the
\* canvas timer, which converts it with int(): a NaN interval raises ValueError
\* before self.anim is assigned.
start_animation(s, view) ==
    IF s.interval.nan
    THEN [s EXCEPT !.exc = "ValueError"]
    ELSE [s EXCEPT !.orphans = Released(s),
                   !.anim = <<[frames |-> DepthRange(view), interval |-> s.interval,
                               next |-> 0, running |-> TRUE]>>]

\* restart_animation without the stop of line 263
restart_animation_unstopped(s, view) ==
    start_animation(s, view)

\* restart_animation (lines 260-264)
restart_animation(s, view) ==
    start_animation([s EXCEPT !.anim = Stopped(s.anim)], view)

RECURSIVE update_fps_from_textbox(_, _, _)
RECURSIVE set_val(_, _, _)

\* TextBox.set_val: a text equal to the shown one is ignored; a new text is
\* stored and the submit observers run, that is, the handler of line 74 again.
set_val(s, newval, view) ==
    IF s.text = newval THEN s
    ELSE update_fps_from_textbox([s EXCEPT !.text = newval], newval, view)

\* the except branch (lines 255-258); int(nan) raises out of the handler
RestoreText(s, view) ==
    IF IntOk(s.fps)
    THEN set_val([s EXCEPT !.exc = ""], IntStr(IntOf(s.fps)), view)
    ELSE [s EXCEPT !.exc = "ValueError"]

\* update_fps_from_textbox (lines 235-258)
update_fps_from_textbox(s, text, view) ==
    LET parsed == ParseFloat(text)
    IN  IF ~parsed.ok THEN RestoreText(s, view)
        ELSE
          LET clamped ==
                  IF FLe(parsed.val, Num(0)) THEN set_val(s, IntStr(MinFps), view)
                  ELSE IF FGt(parsed.val, Whole(MaxFps)) THEN set_val(s, IntStr(MaxFps), view)
                  ELSE s
              new_fps ==
                  IF FLe(parsed.val, Num(0)) THEN Whole(MinFps)
                  ELSE IF FGt(parsed.val, Whole(MaxFps)) THEN Whole(MaxFps)
                  ELSE parsed.val
          IN  IF clamped.exc = "ValueError" THEN RestoreText(clamped, view)
              ELSE
                LET restarted ==
                        restart_animation(
                            [clamped EXCEPT !.fps = new_fps,
                                            !.interval = FDiv(MsPerSecond, new_fps)],
                            view)
                IN  IF restarted.exc = "ValueError" THEN RestoreText(restarted, view)
                    ELSE restarted

Escaped(handler, exc) == IF exc = "" THEN <<>> ELSE <<handler, exc>>

\* the event loop runs inside run(), and again inside each plt.pause
Dispatching == pc = "running"

\* the user submits `text` in the FPS box
SubmitFps(text) ==
    /\ Dispatching
    /\ \E s \in {update_fps_from_textbox([Session EXCEPT !.text = text], text, current_view)} :
           /\ fps' = s.fps
           /\ interval' = s.interval
           /\ anim' = s.anim
           /\ orphans' = s.orphans
           /\ fps_textbox' = s.text
           /\ uncaught' = Escaped("update_fps_from_textbox", s.exc)
    /\ UNCHANGED <<pc, media, shape, current_view, frame, button, slice_data, written, paused>>

\* lines 118-120: stop the timer, then drop the reference
stop_and_clear(s) ==
    LET st == [s EXCEPT !.anim = Stopped(s.anim)]
    IN  [st EXCEPT !.orphans = Released(st), !.anim = <<>>]

\* dimension_changed (lines 117-123); an exception of start_animation escapes
\* after lines 121-122 have run
dimension_changed(label) ==
    /\ Dispatching
    /\ \E s \in {start_animation(stop_and_clear(Session), label)} :
           /\ anim' = s.anim
           /\ orphans' = s.orphans
           /\ uncaught' = Escaped("dimension_changed", s.exc)
    /\ current_view' = label
    /\ frame' = 0
    /\ UNCHANGED <<pc, media, shape, fps, interval, fps_textbox, button, slice_data, written, paused>>

\* run (lines 341-343): start_animation, then the blocking event loop
run ==
    /\ pc = "constructed"
    /\ pc' = "running"
    /\ \E s \in {start_animation(Session, current_view)} :
           /\ anim' = s.anim
           /\ orphans' = s.orphans
           /\ uncaught' = Escaped("run", s.exc)
    /\ UNCHANGED <<media, shape, fps, interval, current_view, frame, fps_textbox, button,
                   slice_data, written, paused>>

\* ---------------------------------------------------------------- slices
Plane(rows, cols) == (0..rows-1) \X (0..cols-1) \X (0..Channels-1)

\* Slice whose fixed-column view ignores the column asked for
SliceFirstColumn(view, d) ==
    IF view = "X-Y-T"
    THEN [q \in Plane(height, width) |-> volume[<<d, q[1], q[2], q[3]>>]]
    ELSE IF view = "Y-T-X"
    THEN [q \in Plane(time, height) |-> volume[<<q[1], q[2], 0, q[3]>>]]
    ELSE [q \in Plane(time, width) |-> volume[<<q[1], d, q[2], q[3]>>]]

\* the slice_data of update (lines 136-162)
Slice(view, d) ==
    IF view = "X-Y-T"
    THEN [q \in Plane(height, width) |-> volume[<<d, q[1], q[2], q[3]>>]]
    ELSE IF view = "Y-T-X"
    THEN [q \in Plane(time, height) |-> volume[<<q[1], q[2], d, q[3]>>]]
    ELSE [q \in Plane(time, width) |-> volume[<<q[1], d, q[2], q[3]>>]]

\* the length numpy finds along axis k of the volume (1 = t, 2 = y, 3 = x)
AxisLen(k) == Cardinality({p[k] : p \in DOMAIN volume})

\* the index `d` is inside the axis that the view's slice fixes
Indexable(view, d) ==
    d < AxisLen(IF view = "X-Y-T" THEN 1 ELSE IF view = "Y-T-X" THEN 3 ELSE 2)

\* the animations whose timer fires: self.anim and the unreferenced ones
Timers == (IF anim # <<>> /\ anim[1].running THEN {0} ELSE {}) \cup DOMAIN orphans
TimerAt(k) == IF k = 0 THEN anim[1] ELSE orphans[k]

\* FuncAnimation with frames=n repeats range(n)
Advance(a) == [a EXCEPT !.next = (a.next + 1) % a.frames]

\* update (lines 125-178), called by the timer k with its next frame number;
\* line 126 runs before the volume is indexed
update ==
    /\ Dispatching
    /\ \E k \in Timers :
         LET a == TimerAt(k)
         IN  /\ frame' = a.next
             /\ IF Indexable(current_view, a.next)
                THEN /\ slice_data' = <<Slice(current_view, a.next)>>
                     /\ uncaught' = <<>>
                ELSE /\ slice_data' = slice_data
                     /\ uncaught' = <<"update", "IndexError">>
             /\ IF k = 0
                THEN anim' = <<Advance(a)>> /\ orphans' = orphans
                ELSE anim' = anim /\ orphans' = [orphans EXCEPT ![k] = Advance(a)]
    /\ UNCHANGED <<pc, media, shape, fps, interval, current_view, fps_textbox, button,
                   written, paused>>

\* ---------------------------------------------------------------- export
\* what astype(np.uint8) may give for a value outside 0..255
CastModes == {"wrap", "saturate"}

\* (data * 255).astype(np.uint8) of one entry (line 315)
ToUint8(v, mode) ==
    LET k == (PixelScale * v.n) \div v.d
    IN  IF k < Uint8Range THEN k
        ELSE IF mode = "wrap" THEN k % Uint8Range ELSE Uint8Range - 1

\* the array `data` of lines 298-312
ExportArray(view) ==
    IF view = "X-Y-T" THEN volume
    ELSE IF view = "Y-T-X"
    THEN [p \in (0..width-1) \X (0..time-1) \X (0..height-1) \X (0..Channels-1) |->
             volume[<<p[2], p[3], p[1], p[4]>>]]
    ELSE [p \in (0..height-1) \X (0..time-1) \X (0..width-1) \X (0..Channels-1) |->
             volume[<<p[2], p[1], p[3], p[4]>>]]

\* `frames` of the export (lines 299, 302, 308)
ExportFrames(view) ==
    IF view = "X-Y-T" THEN time
    ELSE IF view = "Y-T-X" THEN width
    ELSE height

\* the frames appended to the writer, in order (lines 322-324)
Appended(view, mode) ==
    LET data == ExportArray(view)
        dom == {<<p[2], p[3], p[4]>> : p \in DOMAIN data}
    IN  [i \in 1..ExportFrames(view) |->
            [q \in dom |-> ToUint8(data[<<i - 1>> \o q], mode)]]

\* round(x) of a float: to the nearest integer, a tie to the even one
RoundOf(f) ==
    LET k == f.h \div 100
        r == f.h % 100
    IN  IF r > 50 \/ (r = 50 /\ k % 2 = 1) THEN k + 1 ELSE k

\* OutputPath with the rate rounded instead of truncated
OutputPathRounded(view, rate) ==
    <<"exports", MediaOf(file_path).base, "_", Lower(view), "_", IntStr(RoundOf(rate)), "fps.gif">>

\* lines 289-290
OutputPath(view, rate) ==
    <<"exports", MediaOf(file_path).base, "_", Lower(view), "_", IntStr(IntOf(rate)), "fps.gif">>

\* export_button_clicked up to its plt.pause (lines 283-337).  dirOk: os.makedirs
\* succeeds; writeOk: the writer opens and takes every frame.
export_button_clicked(dirOk, writeOk, mode) ==
    /\ Dispatching
    /\ paused < MaxNest
    /\ IF ~dirOk
       THEN /\ uncaught' = <<"export_button_clicked", "OSError">>
            /\ UNCHANGED <<button, written, paused>>
       ELSE IF ~IntOk(fps)
       THEN /\ uncaught' = <<"export_button_clicked", "ValueError">>
            /\ UNCHANGED <<button, written, paused>>
       ELSE /\ uncaught' = <<>>
            /\ paused' = paused + 1
            /\ IF writeOk
               THEN /\ written' = <<[output_path |-> OutputPath(current_view, fps),
                                     duration |-> QIntOf(FDiv(MsPerSecond, fps)),
                                     frames |-> Appended(current_view, mode)]>>
                    /\ button' = "Export Complete!"
               ELSE /\ written' = <<>>
                    /\ button' = "Export Failed!"
    /\ UNCHANGED <<pc, media, shape, fps, interval, current_view, frame, anim, orphans,
                   fps_textbox, slice_data>>

\* how an export can go: <<dirOk, writeOk, mode>>; the cast matters only to
\* an export that writes
ExportRuns ==
    {<<FALSE, FALSE, "wrap">>, <<TRUE, FALSE, "wrap">>} \cup {<<TRUE, TRUE, m>> : m \in CastModes}

\* plt.pause returns and the handler ends (lines 338-339)
export_resume ==
    /\ paused > 0
    /\ paused' = paused - 1
    /\ button' = "Export GIF"
    /\ written' = <<>>
    /\ UNCHANGED <<pc, media, shape, fps, interval, current_view, frame, anim, orphans,
                   fps_textbox, slice_data, uncaught>>

Next ==
    \/ Construct
    \/ run
    \/ \E label \in ViewSet : dimension_changed(label)
    \/ \E text \in RateTexts : SubmitFps(text)
    \/ update
    \/ \E e \in ExportRuns : export_button_clicked(e[1], e[2], e[3])
    \/ export_resume

Spec == Init /\ [][Next]_vars

\* the session whose rate nobody edits, over every medium
NextMedia ==
    \/ Construct
    \/ run
    \/ \E label \in ViewSet : dimension_changed(label)
    \/ update
    \/ \E e \in ExportRuns : export_button_clicked(e[1], e[2], e[3])
    \/ export_resume

SpecMedia == InitMedia /\ [][NextMedia]_vars

\* ================================================================ claims
ChannelSet == 0..(Channels - 1)
RangeOf(view) ==
    CASE view = "X-Y-T" -> time
      [] view = "Y-T-X" -> width
      [] view = "T-X-Y" -> height
Playing == anim # <<>> /\ anim[1].running
\* the innermost export handler wrote its file and waits in plt.pause; the
\* step of a handler that got there raises `paused`
Wrote == written # <<>> /\ button = "Export Complete!"
ExportStep == \E e \in ExportRuns : export_button_clicked(e[1], e[2], e[3])

\* ---- C1
SourceChannel(c) ==
    {frames[i][q] : i \in 1..Len(frames), q \in {r \in DOMAIN frames[1] : r[3] = c}}
VolumeChannel(c) == {volume[p] : p \in {q \in DOMAIN volume : q[4] = c}}

\* C1: after construction every channel of the volume has minimum 0.0 and
\* maximum 1.0, and a channel whose source was constant is 0.0 everywhere.
C1_Normalized ==
    pc # "start" =>
        \A c \in ChannelSet :
            IF Cardinality(SourceChannel(c)) = 1
            THEN \A v \in VolumeChannel(c) : v.n = 0
            ELSE /\ \A v \in VolumeChannel(c) : 0 <= v.n /\ v.n <= v.d
                 /\ \E v \in VolumeChannel(c) : v.n = 0
                 /\ \E v \in VolumeChannel(c) : v.n = v.d

\* ---- C2
\* C2: the slice a redraw computes for depth index d is the projection of the
\* volume for the active view: Volume[d] in X-Y-T, Volume[t,y,d,c] at [t,y,c]
\* in Y-T-X, Volume[t,d,x,c] at [t,x,c] in T-X-Y.
C2_SliceIsProjection ==
    [][(update /\ uncaught' = <<>>) =>
         LET d == frame'
             img == slice_data'[1]
         IN  CASE current_view = "X-Y-T" ->
                    /\ DOMAIN img = (0..height-1) \X (0..width-1) \X ChannelSet
                    /\ \A y \in 0..height-1, x \in 0..width-1, c \in ChannelSet :
                           img[<<y, x, c>>] = volume[<<d, y, x, c>>]
               [] current_view = "Y-T-X" ->
                    /\ DOMAIN img = (0..time-1) \X (0..height-1) \X ChannelSet
                    /\ \A t \in 0..time-1, y \in 0..height-1, c \in ChannelSet :
                           img[<<t, y, c>>] = volume[<<t, y, d, c>>]
               [] current_view = "T-X-Y" ->
                    /\ DOMAIN img = (0..time-1) \X (0..width-1) \X ChannelSet
                    /\ \A t \in 0..time-1, x \in 0..width-1, c \in ChannelSet :
                           img[<<t, x, c>>] = volume[<<t, d, x, c>>]]_vars

\* a column other than the first is shown in the fixed-column view of a
\* volume that differs from column to column
C2_Witness ==
    /\ current_view = "Y-T-X" /\ frame = 1 /\ time > 1 /\ height > 1
    /\ slice_data # <<>>
    /\ \A t \in 0..time-1, y \in 0..height-1, c \in ChannelSet :
           slice_data[1][<<t, y, c>>] = volume[<<t, y, 1, c>>]
    /\ \E t \in 0..time-1, y \in 0..height-1, c \in ChannelSet :
           volume[<<t, y, 1, c>>] # volume[<<t, y, 0, c>>]

\* ---- C3
\* C3: a rate input <= 0 sets the rate to 1, one > 1000 sets it to 1000, any
\* other numeric input sets the rate to its value, and a non-numeric input
\* leaves the rate and the timer interval as they were.
C3_RateUpdate ==
    [][\A text \in RateTexts :
          SubmitFps(text) =>
              LET parsed == ParseFloat(text)
              IN  IF ~parsed.ok THEN fps' = fps /\ interval' = interval
                  ELSE IF FLe(parsed.val, Num(0)) THEN fps' = Whole(1)
                  ELSE IF FGt(parsed.val, Whole(1000)) THEN fps' = Whole(1000)
                  ELSE fps' = parsed.val]_vars

\* ---- C4
\* C4: selecting a view sets the view and the depth index 0 in one step, and
\* in every state of the running session the depth index is inside the range
\* of the active view; no redraw indexes the volume outside it.
C4_DepthInRange ==
    /\ [](pc = "running" =>
            /\ frame \in 0..(RangeOf(current_view) - 1)
            /\ uncaught # <<"update", "IndexError">>)
    /\ [][\A label \in ViewSet :
            dimension_changed(label) => current_view' = label /\ frame' = 0]_vars

\* a view of one depth index is active after a longer one was played
C4_Witness ==
    /\ pc = "running" /\ Playing
    /\ current_view # "X-Y-T" /\ RangeOf(current_view) = 1 /\ time > 1
    /\ frame = 0 /\ slice_data # <<>> /\ DOMAIN slice_data[1] = (0..height-1) \X (0..width-1) \X ChannelSet

\* ---- C5
\* C5: a finished export wrote exactly as many frames as the active view has
\* depth indices, and frame i is the slice playback shows at depth index i,
\* scaled to an integer in 0..255.
C5_ExportIsPlayback ==
    [][(ExportStep /\ paused' = paused + 1 /\ Wrote') =>
         LET out == written'[1].frames
         IN  /\ Len(out) = RangeOf(current_view)
             /\ \A i \in 0..(RangeOf(current_view) - 1) :
                    /\ DOMAIN out[i + 1] = DOMAIN Slice(current_view, i)
                    /\ \A q \in DOMAIN out[i + 1] :
                           LET v == Slice(current_view, i)[q]
                           IN  /\ out[i + 1][q] = (255 * v.n) \div v.d
                               /\ out[i + 1][q] \in 0..255]_vars

\* ---- C6
\* C6: no failure of an export leaves the export handler as an exception;
\* once no export is in progress the button reads 'Export GIF'; the export
\* handler changes neither view, depth index, rate nor volume.
C6_ExportContained ==
    /\ [](uncaught # <<>> => uncaught[1] # "export_button_clicked")
    /\ []((pc # "start" /\ paused = 0) => button = "Export GIF")
    /\ [][(ExportStep \/ export_resume) =>
             UNCHANGED <<current_view, frame, fps, interval, volume>>]_vars

\* ---- C7
\* C7: after a view is selected playback starts at depth index 0, every redraw
\* shows the next index of the active view or returns to 0, and playback never
\* stops while the session runs.
C7_CyclicPlayback ==
    /\ [](pc = "running" => Playing /\ anim[1].frames = RangeOf(current_view))
    /\ [][\A label \in ViewSet : dimension_changed(label) => frame' = 0 /\ Playing']_vars
    /\ [][update => frame' \in {0, frame + 1} /\ frame' < RangeOf(current_view)]_vars

\* ---- C8
RatePart(path) == path[6]
\* C8: an export writes to exports/<base>_<view lowercased>_<round(rate)>fps.gif.
C8_PathRounded ==
    [][(ExportStep /\ paused' = paused + 1 /\ Wrote') =>
         written'[1].output_path =
             <<"exports", MediaOf(file_path).base, "_", Lower(current_view), "_",
               IntStr(RoundOf(fps)), "fps.gif">>]_vars

\* C8 as amended: the rate component is the rate truncated to an integer k,
\* that is k <= rate < k + 1.
C8_PathTruncated ==
    [][(ExportStep /\ paused' = paused + 1 /\ Wrote') =>
         LET path == written'[1].output_path
             k == ParseFloat(RatePart(path)).val
         IN  /\ Len(path) = 7
             /\ path[1] = "exports" /\ path[2] = MediaOf(file_path).base
             /\ path[3] = "_" /\ path[4] = Lower(current_view) /\ path[5] = "_"
             /\ path[7] = "fps.gif"
             /\ ~k.nan /\ k.h % 100 = 0
             /\ k.h <= fps.h /\ fps.h < k.h + 100]_vars

\* an export at 29.97 frames per second is in progress
C8_Witness ==
    /\ written # <<>> /\ fps = Num(2997) /\ RatePart(written[1].output_path) = "29"

\* ---- C9
\* C9: the rate is always in (0, 1000] and the interval is 1000 / rate.
C9_RateInRange ==
    /\ ~fps.nan /\ 0 < fps.h /\ fps.h <= 1000 * 100
    /\ ~interval.nan /\ interval.n * fps.h = 1000 * 100 * interval.d

\* ---- C10
\* C10: at most one animation timer runs; the running animation was created
\* for the depth range of the active view and the current interval; every
\* animation created before it is stopped.
C10_OneTimer ==
    pc = "running" =>
        /\ Cardinality(Timers) <= 1
        /\ orphans = <<>>
        /\ Playing => /\ anim[1].frames = RangeOf(current_view)
                      /\ anim[1].interval = interval
                      /\ ~interval.nan /\ interval.n * fps.h = 1000 * 100 * interval.d

\* the animation runs after both a view selection and a rate change
C10_Witness ==
    /\ pc = "running" /\ Playing
    /\ current_view = "T-X-Y" /\ fps = Whole(1000) /\ anim[1].interval = FDiv(1000, Whole(1000))
    /\ anim[1].frames = height /\ height > 1 /\ anim[1].next = 1
====
